---- MODULE Spec2Model ----
(***************************************************************************)
(* State-machine model of the provider orchestrator of the chatbot gateway *)
(* (services/chatbot.go) with the two backend adapters it drives           *)
(* (services/llm.go, services/chatgpt.go), the per-channel buffer of       *)
(* recent messages (services/rag.go) and the two front ends.               *)
(*                                                                         *)
(* Texts are sequences of fragments: a fragment is a single character, or  *)
(* for the fixed reply templates a whole literal.  A text is the empty     *)
(* string exactly when it is the empty sequence.                           *)
(***************************************************************************)
EXTENDS Integers, Sequences, FiniteSets, TLC

VARIABLES
    preferredProvider,   \* Chatbot.preferredProvider
    currentProvider,     \* Chatbot.currentProvider
    providerCheckCache,  \* Chatbot.providerCheckCache
    llmService,          \* Chatbot.llmService # nil
    chatgptService,      \* Chatbot.chatgptService # nil
    apiKey,              \* OPENAI_API_KEY is set (ChatGPTService.apiKey # "")
    searchService,       \* ChatGPTService.searchService: "nil", "disabled" (no key) or "ready"
    enableRAG,           \* Chatbot.enableRAG (ragService # nil and initialized)
    localUp,             \* environment: the local inference server answers its probe
    lastOp,              \* the operation that produced this state
    lastProbes,          \* the availability probes that operation made
    before,              \* ProviderState as that operation found it
    resp,                \* the result of the last ProcessMessage call
    turn,                \* what that call was given: its arguments and what the services did
    access,              \* per worker: the access to ProviderState it is in the middle of
    discordMessages,     \* RAGService.discordMessages: per channel, newest message first
    messagesMutex,       \* RAGService.messagesMutex: its writer (0 for none) and its readers
    pc,                  \* per worker: the buffer operation it is in, and where
    inserted,            \* per channel: the ids of the messages added, oldest first
    call,                \* the function call under examination, with its arguments
    returned,            \* what the successive applications of that call returned
    front                \* what the front end did with the last request it was given

chatVars == <<preferredProvider, currentProvider, providerCheckCache, llmService,
              chatgptService, apiKey, searchService, enableRAG, localUp, lastOp,
              lastProbes, before, resp, turn, access>>

bufVars == <<discordMessages, messagesMutex, pc, inserted>>

pureVars == <<call, returned>>

vars == <<chatVars, bufVars, pureVars, front>>

(***************************************************************************)
(* Bounds of the model.                                                    *)
(***************************************************************************)
MaxHistory == 2
MaxDocs == 2
NumWorkers == 2
MaxInserts == 12
MaxTurns == 7

(***************************************************************************)
(* Provider names.                                                         *)
(***************************************************************************)
ProviderLocal == "local"
ProviderChatGPT == "chatgpt"
ProviderDummy == "dummy"
AutoDetect == ""

RealProviders == {ProviderLocal, ProviderChatGPT}
Providers == RealProviders \cup {ProviderDummy}
Preferences == {AutoDetect, ProviderLocal, ProviderChatGPT}

OtherProvider(p) == IF p = ProviderLocal THEN ProviderChatGPT ELSE ProviderLocal

(***************************************************************************)
(* Strings.                                                                *)
(***************************************************************************)
IsSpace(c) == c \in {" ", "\n", "\t", "\r"}

RECURSIVE TrimLeft(_)
TrimLeft(s) ==
    IF s = <<>> THEN <<>>
    ELSE IF IsSpace(Head(s)) THEN TrimLeft(Tail(s)) ELSE s

RECURSIVE TrimRightSet(_, _)
TrimRightSet(s, cut) ==
    IF s = <<>> THEN <<>>
    ELSE IF s[Len(s)] \in cut THEN TrimRightSet(SubSeq(s, 1, Len(s) - 1), cut) ELSE s

TrimSpace(s) == TrimRightSet(TrimLeft(s), {" ", "\n", "\t", "\r"})

\* strings.Index, 1-based; 0 when pat does not occur in s
Index(s, pat) ==
    LET hits == {i \in 1..(Len(s) - Len(pat) + 1) : SubSeq(s, i, i + Len(pat) - 1) = pat}
    IN IF hits = {} THEN 0 ELSE CHOOSE i \in hits : \A j \in hits : i <= j

Contains(s, pat) == Index(s, pat) # 0

\* strings.HasPrefix
HasPrefix(s, prefix) ==
    Len(s) >= Len(prefix) /\ SubSeq(s, 1, Len(prefix)) = prefix

\* strings.LastIndex for a one-character pattern: the 0-based position of the last
\* occurrence, or -1
LastIndex(s, c) ==
    LET at == {i \in 1..Len(s) : s[i] = c}
    IN IF at = {} THEN -1 ELSE (CHOOSE i \in at : \A j \in at : j <= i) - 1

LowerChar(c) ==
    CASE c = "H" -> "h"
      [] c = "A" -> "a"
      [] c = "I" -> "i"
      [] c = "R" -> "r"
      [] OTHER -> c

ToLower(s) == [i \in 1..Len(s) |-> LowerChar(s[i])]

RECURSIVE Join(_, _)
Join(parts, sep) ==
    IF parts = <<>> THEN <<>>
    ELSE IF Len(parts) = 1 THEN parts[1]
    ELSE parts[1] \o sep \o Join(Tail(parts), sep)

\* strings.Split for a non-empty separator
RECURSIVE Split(_, _)
Split(s, sep) ==
    LET i == Index(s, sep)
    IN IF i = 0 THEN <<s>>
       ELSE <<SubSeq(s, 1, i - 1)>> \o Split(SubSeq(s, i + Len(sep), Len(s)), sep)

(***************************************************************************)
(* Output cleanup of the local adapter.                                    *)
(***************************************************************************)
ResponseBudget == 300
HardCut == 297

stopPatterns ==
    << <<"\n", "\n", "H", "u", "m", "a", "n", ":">>,
       <<"\n", "H", "u", "m", "a", "n", ":">>,
       <<"\n", "\n", "U", "s", "e", "r", ":">>,
       <<"\n", "U", "s", "e", "r", ":">>,
       <<"\n", "\n", "Q", ":">>,
       <<"\n", "Q", ":">>,
       <<"\n", "\n", "Q", "u", "e", "s", "t", "i", "o", "n", ":">> >>

\* the loop over stopPatterns leaving at the first pattern that occurs
RECURSIVE CutAtFirstListed(_, _)
CutAtFirstListed(response, patterns) ==
    IF patterns = <<>> THEN response
    ELSE LET idx == Index(response, Head(patterns))
         IN IF idx # 0 THEN SubSeq(response, 1, idx - 1)
            ELSE CutAtFirstListed(response, Tail(patterns))

\* the loop over stopPatterns: each pattern in turn cuts the response at its
\* first occurrence in what the earlier patterns left
RECURSIVE CutAtPatterns(_, _)
CutAtPatterns(response, patterns) ==
    IF patterns = <<>> THEN response
    ELSE LET idx == Index(response, Head(patterns))
         IN CutAtPatterns(IF idx # 0 THEN SubSeq(response, 1, idx - 1) ELSE response,
                          Tail(patterns))

LimitLength(response) ==
    IF Len(response) > ResponseBudget
    THEN LET sentences == Split(response, <<".", " ">>)
         IN IF Len(sentences) > 2
            THEN Join(SubSeq(sentences, 1, 2), <<".", " ">>) \o <<".">>
            ELSE SubSeq(response, 1, HardCut) \o <<".", ".", ".">>
    ELSE response

\* cleanResponse without the trim that follows the removal of the trailing
\* punctuation
cleanResponseUntrimmed(response) ==
    LET trimmed == TrimSpace(response)
        cut == CutAtPatterns(trimmed, stopPatterns)
    IN LimitLength(TrimRightSet(cut, {".", ",", "!", "?", ";", ":"}))

cleanResponse(response) ==
    LET trimmed == TrimSpace(response)
        cut == CutAtPatterns(trimmed, stopPatterns)
        bare == TrimSpace(TrimRightSet(cut, {".", ",", "!", "?", ";", ":"}))
    IN LimitLength(bare)

(***************************************************************************)
(* Output cleanup of the hosted adapter.  ChatGPTService.cleanResponse     *)
(* delegates to the package-level cleanLLMResponse, modelled here on the   *)
(* shared cleanup contract: trim, truncate at the leftmost continuation    *)
(* marker, then cut at a sentence boundary within the budget or            *)
(* hard-truncate with an ellipsis.                                         *)
(***************************************************************************)
cleanLLMResponse(response) ==
    LET trimmed == TrimSpace(response)
        marks == {Index(trimmed, stopPatterns[k]) : k \in 1..Len(stopPatterns)} \ {0}
        cut == IF marks = {} THEN trimmed
               ELSE SubSeq(trimmed, 1, (CHOOSE i \in marks : \A j \in marks : i <= j) - 1)
        ends == {i \in 1..ResponseBudget : i <= Len(cut) /\ cut[i] = "."}
    IN IF Len(cut) <= ResponseBudget THEN cut
       ELSE IF ends # {} THEN SubSeq(cut, 1, CHOOSE i \in ends : \A j \in ends : j <= i)
       ELSE SubSeq(cut, 1, HardCut) \o <<".", ".", ".">>

(***************************************************************************)
(* The canned-response generator.                                          *)
(***************************************************************************)
greetings ==
    << <<"Hello! I'm your RAG chatbot. I can use local LLM or ChatGPT when available!">>,
       <<"Hi there! I'm powered by AI when possible, with smart fallbacks.">>,
       <<"Hey! I'm in Phase 3+ development - now with multiple LLM providers!">> >>

ContainsAny(s, pats) == \E k \in 1..Len(pats) : Contains(s, pats[k])

greetingWords == << <<"h", "e", "l", "l", "o">>, <<"h", "i">>, <<"h", "e", "y">> >>

\* ChatGPTService.IsAvailable
ChatGPTIsAvailable == apiKey

\* generateDummyResponse answering with the message alone
generateDummyResponseEcho(current, message, historyLength, pick) == ToLower(message)

\* generateDummyResponse numbering its default reply by the position of the
\* message in the conversation
generateDummyResponseCounting(current, message, historyLength, pick) ==
    LET m == ToLower(message)
    IN IF ContainsAny(m, greetingWords) THEN greetings[pick + 1]
       ELSE <<"I received: \"">> \o m \o <<"\" as message ", historyLength + 1>>

\* `pick` is the draw of rand.Intn(len(greetings)), `current` the value read
\* from c.currentProvider
generateDummyResponse(current, message, historyLength, pick) ==
    LET m == ToLower(message)
    IN IF ContainsAny(m, greetingWords)
       THEN greetings[pick + 1]
       ELSE IF ContainsAny(m, << <<"l", "l", "m">>, <<"m", "o", "d", "e", "l">>, <<"a", "i">> >>)
       THEN <<"I can use multiple AI providers: Local LLM (Ollama), ChatGPT, or smart dummy responses. Currently using: ",
              current>>
       ELSE IF ContainsAny(m, << <<"c", "h", "a", "t", "g", "p", "t">>,
                                 <<"o", "p", "e", "n", "a", "i">> >>)
       THEN IF chatgptService /\ ChatGPTIsAvailable
            THEN <<"ChatGPT is available! I can use it for high-quality responses via the OpenAI API.">>
            ELSE <<"ChatGPT is not configured (missing OPENAI_API_KEY) or not initialized in this mode.">>
       ELSE IF ContainsAny(m, << <<"d", "o", "c", "u", "m", "e", "n", "t">>, <<"f", "i", "l", "e">>,
                                 <<"s", "e", "a", "r", "c", "h">> >>)
       THEN <<"I'm designed for document search and RAG! Right now I'm using dummy context, but I'll soon be able to search through your actual documents and use that information with my AI.">>
       ELSE IF ContainsAny(m, << <<"r", "a", "g">>, <<"r", "e", "t", "r", "i", "e", "v", "a", "l">> >>)
       THEN <<"RAG (Retrieval-Augmented Generation) is my specialty! I combine document search with AI generation. Currently using simulated retrieval, but real document processing is coming in Phase 4!">>
       ELSE <<"I received: \"">> \o m \o
            <<"\". Currently using ", current,
              " provider. I support local LLM, ChatGPT, and smart fallbacks!">>

(***************************************************************************)
(* The search decision.                                                    *)
(***************************************************************************)
searchKeywords ==
    << <<"l", "a", "t", "e", "s", "t">>,
       <<"r", "e", "c", "e", "n", "t">>,
       <<"c", "u", "r", "r", "e", "n", "t">>,
       <<"t", "o", "d", "a", "y">>,
       <<"n", "e", "w", "s">>,
       <<"u", "p", "d", "a", "t", "e">>,
       <<"2", "0", "2", "4">>,
       <<"2", "0", "2", "5">>,
       <<"w", "h", "a", "t", "'", "s", " ", "h", "a", "p", "p", "e", "n", "i", "n", "g">>,
       <<"b", "r", "e", "a", "k", "i", "n", "g">>,
       <<"t", "r", "e", "n", "d", "i", "n", "g">>,
       <<"n", "o", "w">>,
       <<"c", "u", "r", "r", "e", "n", "t", "l", "y">>,
       <<"t", "h", "i", "s", " ", "w", "e", "e", "k">>,
       <<"t", "h", "i", "s", " ", "m", "o", "n", "t", "h">>,
       <<"t", "h", "i", "s", " ", "y", "e", "a", "r">>,
       <<"s", "t", "a", "t", "u", "s">>,
       <<"p", "r", "i", "c", "e">>,
       <<"w", "e", "a", "t", "h", "e", "r">>,
       <<"s", "t", "o", "c", "k">>,
       <<"r", "a", "t", "e">>,
       <<"e", "l", "e", "c", "t", "i", "o", "n">>,
       <<"e", "v", "e", "n", "t">> >>

questionPatterns ==
    << <<"w", "h", "a", "t", " ", "i", "s", " ", "t", "h", "e">>,
       <<"h", "o", "w", " ", "m", "u", "c", "h">>,
       <<"w", "h", "e", "r", "e", " ", "i", "s">>,
       <<"w", "h", "e", "n", " ", "d", "i", "d">>,
       <<"w", "h", "o", " ", "w", "o", "n">>,
       <<"w", "h", "a", "t", " ", "h", "a", "p", "p", "e", "n", "e", "d">>,
       <<"h", "o", "w", " ", "t", "o">>,
       <<"w", "h", "y", " ", "i", "s">>,
       <<"i", "s", " ", "t", "h", "e", "r", "e">> >>

\* SearchService.IsEnabled
SearchIsEnabled == searchService = "ready"

\* ShouldSearch looking for the keywords in the message as typed, and not for
\* the question openings
ShouldSearchAsTyped(message) ==
    IF ~SearchIsEnabled THEN FALSE
    ELSE ContainsAny(message, searchKeywords)

\* SearchService.ShouldSearch
ShouldSearch(message) ==
    IF ~SearchIsEnabled THEN FALSE
    ELSE LET m == ToLower(message)
         IN ContainsAny(m, searchKeywords) \/ ContainsAny(m, questionPatterns)

(***************************************************************************)
(* The backend adapters.  `outcome` is what the backend does with the      *)
(* request: kind "ok" carries the raw text of the reply; "network" (also a *)
(* timeout), "status" (a non-200 answer), "decode", "apierror" (the error  *)
(* field is set) and "nochoices" are the ways it can go wrong.             *)
(***************************************************************************)
Failure == [ok |-> FALSE, text |-> <<>>, searched |-> FALSE]

\* LLMService.GenerateResponse
LLMGenerateResponse(message, context, history, outcome) ==
    IF outcome.kind = "ok"
    THEN [ok |-> TRUE, text |-> cleanResponse(outcome.raw), searched |-> FALSE]
    ELSE Failure

\* ChatGPTService.GenerateResponse giving up when the web search fails
ChatGPTGenerateResponseStrict(message, context, history, outcome, found) ==
    IF ~apiKey THEN Failure
    ELSE LET searched == searchService # "nil" /\ SearchIsEnabled /\ ShouldSearch(message)
         IN IF searched /\ found < 0 THEN [ok |-> FALSE, text |-> <<>>, searched |-> TRUE]
            ELSE IF outcome.kind \in {"ok", "status"}
            THEN [ok |-> TRUE, text |-> cleanLLMResponse(outcome.raw), searched |-> searched]
            ELSE [ok |-> FALSE, text |-> <<>>, searched |-> searched]

\* ChatGPTService.GenerateResponse; `found` is what SearchForContext returns:
\* the number of results, or -1 for an error.  The HTTP status of the answer is never
\* looked at: a "status" outcome whose body decodes to a choice is a reply.
ChatGPTGenerateResponse(message, context, history, outcome, found) ==
    IF ~apiKey THEN Failure
    ELSE LET searched == searchService # "nil" /\ SearchIsEnabled /\ ShouldSearch(message)
         IN IF outcome.kind \in {"ok", "status"}
            THEN [ok |-> TRUE, text |-> cleanLLMResponse(outcome.raw), searched |-> searched]
            ELSE [ok |-> FALSE, text |-> <<>>, searched |-> searched]

(***************************************************************************)
(* Context assembly.                                                       *)
(***************************************************************************)
Items(kind, n) == [i \in 1..n |-> [kind |-> kind, n |-> i]]

\* `pick` is 0 for the empty draw, else the number of snippets drawn (1 or 2)
generateDummyContext(pick) == Items("placeholder", pick)

\* generateContextWithHistory putting the history before the documents
generateContextHistoryFirst(message, history, found, pick) ==
    LET docs == IF enableRAG /\ found >= 0 THEN Items("document", found) ELSE <<>>
        hist == IF Len(history) > 0
                THEN <<[kind |-> "header", n |-> 0]>> \o Items("history", Len(history))
                ELSE <<>>
        context == hist \o docs
    IN IF Len(context) = 0 THEN generateDummyContext(pick) ELSE context

\* generateContextWithHistory adding the placeholder snippets to whatever
\* context there is, as generateContext does
generateContextAlwaysDummy(message, history, found, pick) ==
    LET docs == IF enableRAG /\ found >= 0 THEN Items("document", found) ELSE <<>>
        hist == IF Len(history) > 0
                THEN <<[kind |-> "header", n |-> 0]>> \o Items("history", Len(history))
                ELSE <<>>
    IN docs \o hist \o generateDummyContext(pick)

\* `found` is what RAGService.Query returns: the number of documents, or -1 for
\* an error
generateContextWithHistory(message, history, found, pick) ==
    LET docs == IF enableRAG /\ found >= 0 THEN Items("document", found) ELSE <<>>
        hist == IF Len(history) > 0
                THEN <<[kind |-> "header", n |-> 0]>> \o Items("history", Len(history))
                ELSE <<>>
        context == docs \o hist
    IN IF Len(context) = 0 THEN generateDummyContext(pick) ELSE context

(***************************************************************************)
(* The requests the adapters build.  A hosted request is its message list; *)
(* a local prompt is its list of lines, each with the tag it starts with.  *)
(***************************************************************************)
HostedWindow == 6
LocalWindow == 4
QueryLimit == 3

\* the first entries of the history instead of the last
FirstEntries(history, n) ==
    SubSeq(history, 1, IF Len(history) > n THEN n ELSE Len(history))

\* history[start:] with start = len(history) - n when the history is longer than n
LastEntries(history, n) ==
    SubSeq(history, (IF Len(history) > n THEN Len(history) - n ELSE 0) + 1, Len(history))

\* ChatGPTService.buildMessages
buildMessages(message, context, history) ==
    LET tagged(e) == [role |-> IF e.role = "assistant" THEN "assistant" ELSE "user",
                      content |-> e.content]
        window == LastEntries(history, HostedWindow)
    IN <<[role |-> "system", content |-> context]>>
          \o [i \in 1..Len(window) |-> tagged(window[i])]
          \o <<[role |-> "user", content |-> message]>>

\* LLMService.buildPrompt
buildPrompt(message, context, history) ==
    LET spoken(e) == e.role \in {"user", "assistant"}
        line(e) == [tag |-> IF e.role = "user" THEN "Human: " ELSE "Assistant: ",
                    content |-> e.content]
        window == SelectSeq(LastEntries(history, LocalWindow), spoken)
    IN <<[tag |-> "system", content |-> <<>>]>>
          \o (IF Len(context) > 0
              THEN <<[tag |-> "Context:", content |-> <<>>]>>
                      \o [i \in 1..Len(context) |-> [tag |-> "- ", content |-> context[i]]]
              ELSE <<>>)
          \o (IF Len(history) > 0
              THEN <<[tag |-> "Previous conversation:", content |-> <<>>]>>
                      \o [i \in 1..Len(window) |-> line(window[i])]
              ELSE <<>>)
          \o <<[tag |-> "Human: ", content |-> message],
               [tag |-> "Assistant: ", content |-> <<>>]>>

\* the search results ChatGPTService.GenerateResponse appends to the context;
\* `found` is what SearchForContext returns
ChatGPTSearchContext(message, found) ==
    IF searchService # "nil" /\ SearchIsEnabled /\ ShouldSearch(message) /\ found > 0
    THEN Items("search", found)
    ELSE <<>>

NoRequestBuilt == [provider |-> "none", context |-> <<>>, body |-> <<>>]

\* the request the adapter of the current provider builds for a turn, if it gets
\* as far as building one
RequestOf(current, message, context, history, found) ==
    IF current = ProviderChatGPT /\ chatgptService /\ apiKey
    THEN LET allContext == context \o ChatGPTSearchContext(message, found)
         IN [provider |-> ProviderChatGPT, context |-> allContext,
             body |-> buildMessages(message, allContext, history)]
    ELSE IF current = ProviderLocal /\ llmService
    THEN [provider |-> ProviderLocal, context |-> context,
          body |-> buildPrompt(message, context, history)]
    ELSE NoRequestBuilt

(***************************************************************************)
(* Response generation.  `outcomes` gives, for each real backend, what it  *)
(* does with a request made now; `current` is the value the call reads     *)
(* from c.currentProvider.                                                 *)
(***************************************************************************)
Generated(text, used, called, searched) ==
    [text |-> text, usedProvider |-> used, called |-> called, searched |-> searched]

\* generateResponse with the fallback chain crossing to the other backend when
\* the first one fails, whatever the mode
generateResponseCrossing(current, message, context, history, outcomes, found, pick) ==
    LET dummy(called, searched) ==
            Generated(generateDummyResponse(current, message, Len(history), pick),
                      ProviderDummy, called, searched)
        ask(p) == IF p = ProviderLocal
                  THEN LLMGenerateResponse(message, context, history, outcomes[p])
                  ELSE ChatGPTGenerateResponse(message, context, history, outcomes[p], found)
    IN IF current \notin RealProviders THEN dummy({}, FALSE)
       ELSE LET first == ask(current)
                second == ask(OtherProvider(current))
            IN IF first.ok
               THEN Generated(first.text, current, {current}, first.searched)
               ELSE IF second.ok
               THEN Generated(second.text, OtherProvider(current), RealProviders,
                              first.searched \/ second.searched)
               ELSE dummy(RealProviders, first.searched \/ second.searched)

\* generateResponse trying the other backend once in auto-detect mode before the
\* Dummy generator
generateResponseAutoCrossing(current, message, context, history, outcomes, found, pick) ==
    IF preferredProvider = AutoDetect
    THEN generateResponseCrossing(current, message, context, history, outcomes, found, pick)
    ELSE LET dummy(called, searched) ==
                 Generated(generateDummyResponse(current, message, Len(history), pick),
                           ProviderDummy, called, searched)
             r == IF current = ProviderLocal
                  THEN LLMGenerateResponse(message, context, history, outcomes[ProviderLocal])
                  ELSE ChatGPTGenerateResponse(message, context, history,
                                               outcomes[ProviderChatGPT], found)
         IN IF current \notin RealProviders THEN dummy({}, FALSE)
            ELSE IF r.ok THEN Generated(r.text, current, {current}, r.searched)
            ELSE dummy({current}, r.searched)

generateResponse(current, message, context, history, outcomes, found, pick) ==
    LET dummy(called, searched) ==
            Generated(generateDummyResponse(current, message, Len(history), pick),
                      ProviderDummy, called, searched)
    IN CASE current = ProviderChatGPT ->
               IF ~chatgptService THEN dummy({}, FALSE)
               ELSE LET r == ChatGPTGenerateResponse(message, context, history,
                                                     outcomes[ProviderChatGPT], found)
                    IN IF r.ok
                       THEN Generated(r.text, ProviderChatGPT, {ProviderChatGPT}, r.searched)
                       ELSE IF preferredProvider = ProviderChatGPT
                       THEN dummy({ProviderChatGPT}, r.searched)
                       ELSE dummy({ProviderChatGPT}, r.searched)
         [] current = ProviderLocal ->
               IF ~llmService THEN dummy({}, FALSE)
               ELSE LET r == LLMGenerateResponse(message, context, history,
                                                 outcomes[ProviderLocal])
                    IN IF r.ok
                       THEN Generated(r.text, ProviderLocal, {ProviderLocal}, FALSE)
                       ELSE IF preferredProvider = ProviderLocal
                       THEN dummy({ProviderLocal}, FALSE)
                       ELSE dummy({ProviderLocal}, FALSE)
         [] OTHER -> dummy({}, FALSE)

\* whether a generate call made to backend p now would return a text
WouldAnswer(p, outcomes) ==
    IF p = ProviderLocal
    THEN llmService /\ LLMGenerateResponse(<<>>, <<>>, <<>>, outcomes[p]).ok
    ELSE chatgptService /\ ChatGPTGenerateResponse(<<>>, <<>>, <<>>, outcomes[p], 0).ok

\* ChatResponse reporting a backend failure to the caller
ChatResponseFailing(generated, context, outcomes) ==
    [message |-> generated.text,
     context |-> context,
     status |-> IF generated.usedProvider = ProviderDummy /\ generated.called # {}
                THEN "error" ELSE "success",
     usedProvider |-> generated.usedProvider,
     called |-> generated.called,
     searched |-> generated.searched,
     answers |-> [p \in RealProviders |-> WouldAnswer(p, outcomes)]]

\* the ChatResponse ProcessMessage builds, with the provider it logs
ChatResponse(generated, context, outcomes) ==
    [message |-> generated.text,
     context |-> context,
     status |-> "success",
     usedProvider |-> generated.usedProvider,
     called |-> generated.called,
     searched |-> generated.searched,
     answers |-> [p \in RealProviders |-> WouldAnswer(p, outcomes)]]

(***************************************************************************)
(* Construction.  `localProbe` is the answer of LLMService.IsAvailable and *)
(* `key` whether OPENAI_API_KEY is set; a forced mode builds and probes    *)
(* the preferred service only.                                             *)
(***************************************************************************)
\* NewChatbot without the last branch of auto-detection: currentProvider keeps
\* its zero value when no backend is available
NewChatbotUnset(preferred, localProbe, key) ==
    CASE preferred = ProviderChatGPT ->
            [currentProvider |-> IF key THEN ProviderChatGPT ELSE ProviderDummy,
             providerCache |-> [p \in RealProviders |-> p = ProviderChatGPT /\ key],
             llmService |-> FALSE, chatgptService |-> TRUE,
             probes |-> {ProviderChatGPT}]
      [] preferred = ProviderLocal ->
            [currentProvider |-> IF localProbe THEN ProviderLocal ELSE ProviderDummy,
             providerCache |-> [p \in RealProviders |-> p = ProviderLocal /\ localProbe],
             llmService |-> TRUE, chatgptService |-> FALSE,
             probes |-> {ProviderLocal}]
      [] OTHER ->
            [currentProvider |-> IF localProbe THEN ProviderLocal
                                 ELSE IF key THEN ProviderChatGPT
                                 ELSE "",
             providerCache |-> [p \in RealProviders |->
                                   IF p = ProviderLocal THEN localProbe ELSE key],
             llmService |-> TRUE, chatgptService |-> TRUE,
             probes |-> RealProviders]

\* NewChatbot creating and probing both adapters in a forced mode as well
NewChatbotProbingBoth(preferred, localProbe, key) ==
    CASE preferred = ProviderChatGPT ->
            [currentProvider |-> IF key THEN ProviderChatGPT ELSE ProviderDummy,
             providerCache |-> [p \in RealProviders |->
                                   IF p = ProviderLocal THEN localProbe ELSE key],
             llmService |-> TRUE, chatgptService |-> TRUE,
             probes |-> RealProviders]
      [] preferred = ProviderLocal ->
            [currentProvider |-> IF localProbe THEN ProviderLocal ELSE ProviderDummy,
             providerCache |-> [p \in RealProviders |->
                                   IF p = ProviderLocal THEN localProbe ELSE key],
             llmService |-> TRUE, chatgptService |-> TRUE,
             probes |-> RealProviders]
      [] OTHER ->
            [currentProvider |-> IF localProbe THEN ProviderLocal
                                 ELSE IF key THEN ProviderChatGPT
                                 ELSE ProviderDummy,
             providerCache |-> [p \in RealProviders |->
                                   IF p = ProviderLocal THEN localProbe ELSE key],
             llmService |-> TRUE, chatgptService |-> TRUE,
             probes |-> RealProviders]

\* NewChatbot preferring the hosted backend in auto-detection
NewChatbotHostedFirst(preferred, localProbe, key) ==
    CASE preferred = ProviderChatGPT ->
            [currentProvider |-> IF key THEN ProviderChatGPT ELSE ProviderDummy,
             providerCache |-> [p \in RealProviders |-> p = ProviderChatGPT /\ key],
             llmService |-> FALSE, chatgptService |-> TRUE,
             probes |-> {ProviderChatGPT}]
      [] preferred = ProviderLocal ->
            [currentProvider |-> IF localProbe THEN ProviderLocal ELSE ProviderDummy,
             providerCache |-> [p \in RealProviders |-> p = ProviderLocal /\ localProbe],
             llmService |-> TRUE, chatgptService |-> FALSE,
             probes |-> {ProviderLocal}]
      [] OTHER ->
            [currentProvider |-> IF key THEN ProviderChatGPT
                                 ELSE IF localProbe THEN ProviderLocal
                                 ELSE ProviderDummy,
             providerCache |-> [p \in RealProviders |->
                                   IF p = ProviderLocal THEN localProbe ELSE key],
             llmService |-> TRUE, chatgptService |-> TRUE,
             probes |-> RealProviders]

NewChatbot(preferred, localProbe, key) ==
    CASE preferred = ProviderChatGPT ->
            [currentProvider |-> IF key THEN ProviderChatGPT ELSE ProviderDummy,
             providerCache |-> [p \in RealProviders |-> p = ProviderChatGPT /\ key],
             llmService |-> FALSE, chatgptService |-> TRUE,
             probes |-> {ProviderChatGPT}]
      [] preferred = ProviderLocal ->
            [currentProvider |-> IF localProbe THEN ProviderLocal ELSE ProviderDummy,
             providerCache |-> [p \in RealProviders |-> p = ProviderLocal /\ localProbe],
             llmService |-> TRUE, chatgptService |-> FALSE,
             probes |-> {ProviderLocal}]
      [] OTHER ->
            [currentProvider |-> IF localProbe THEN ProviderLocal
                                 ELSE IF key THEN ProviderChatGPT
                                 ELSE ProviderDummy,
             providerCache |-> [p \in RealProviders |->
                                   IF p = ProviderLocal THEN localProbe ELSE key],
             llmService |-> TRUE, chatgptService |-> TRUE,
             probes |-> RealProviders]

Workers == 1..NumWorkers

\* the channels messages arrive on
Channels == {"c1", "c2"}

\* a worker that is in no buffer operation
Idle == [op |-> "none", channelID |-> "", at |-> "", messages |-> <<>>, context |-> <<>>]

\* the message map and its mutex as NewRAGService leaves them; a channel with no
\* entry in the map is a channel with the empty list
NewRAGService ==
    [discordMessages |-> [c \in Channels |-> <<>>],
     messagesMutex |-> [writer |-> 0, readers |-> {}]]

\* no request handled yet
NoRequest ==
    [handler |-> "none", parsed |-> FALSE, input |-> <<>>, called |-> FALSE, code |-> 0,
     status |-> "", message |-> <<>>, sent |-> FALSE, bot |-> FALSE, content |-> <<>>,
     calls |-> 0]

\* no function call under examination
NoCall ==
    [op |-> "none", text |-> <<>>, historyLength |-> 0, historyAgain |-> 0,
     contextLength |-> 0, files |-> <<>>]

NoResponse ==
    [message |-> <<>>, context |-> <<>>, status |-> "none", usedProvider |-> "none",
     called |-> {}, searched |-> FALSE, answers |-> [p \in RealProviders |-> FALSE]]

\* no ProcessMessage call made yet
NoTurn ==
    [message |-> <<>>, history |-> <<>>, found |-> 0, pickContext |-> 0,
     outcomes |-> [p \in RealProviders |-> [kind |-> "none", raw |-> <<>>]],
     results |-> 0, pick |-> 0,
     request |-> [provider |-> "none", context |-> <<>>, body |-> <<>>]]

Init ==
    \E preferred \in Preferences, up \in BOOLEAN, key \in BOOLEAN,
       search \in {"nil", "disabled", "ready"}, rag \in BOOLEAN :
        LET c == NewChatbot(preferred, up, key)
        IN /\ preferredProvider = preferred
           /\ currentProvider = c.currentProvider
           /\ providerCheckCache = c.providerCache
           /\ llmService = c.llmService
           /\ chatgptService = c.chatgptService
           /\ apiKey = key
           /\ searchService = IF c.chatgptService THEN search ELSE "nil"
           /\ enableRAG = rag
           /\ localUp = up
           /\ lastOp = "NewChatbot"
           /\ lastProbes = c.probes
           /\ before = [currentProvider |-> c.currentProvider,
                        preferredProvider |-> preferred,
                        providerCheckCache |-> c.providerCache]
           /\ resp = NoResponse
           /\ turn = NoTurn
           /\ access = [w \in Workers |-> "none"]
           /\ discordMessages = NewRAGService.discordMessages
           /\ messagesMutex = NewRAGService.messagesMutex
           /\ pc = [w \in Workers |-> Idle]
           /\ inserted = [ch \in Channels |-> <<>>]
           /\ call = NoCall
           /\ returned = <<>>
           /\ front = NoRequest

(***************************************************************************)
(* Inputs.                                                                 *)
(***************************************************************************)
Messages ==
    { <<" ", "H", "i">>,
      <<"c", "h", "a", "t", "g", "p", "t">>,
      <<"n", "o", "w">>,
      <<" ">> }

\* a message that opens as a question does, capitalised
HowTo == <<"H", "o", "w", " ", "t", "o">>

HistoryOfLen(n) ==
    [i \in 1..n |-> [role |-> IF i % 2 = 1 THEN "user" ELSE "assistant", content |-> i]]

Histories == {HistoryOfLen(n) : n \in 0..MaxHistory}

RawTexts ==
    { <<>>,
      <<"a">>,
      <<" ", "a", ".", " ">>,
      <<".">>,
      <<"a", "\n", "H", "u", "m", "a", "n", ":", "a">>,
      <<"\n", "H", "u", "m", "a", "n", ":">>,
      <<"a", ".", " ", "a">> }

Outcome(kind, raw) == [kind |-> kind, raw |-> raw]

LocalOutcomes ==
    {Outcome(k, <<>>) : k \in {"network", "status", "decode", "apierror"}}
        \cup {Outcome("ok", r) : r \in RawTexts}

HostedOutcomes ==
    {Outcome(k, <<>>) : k \in {"network", "decode", "apierror", "nochoices"}}
        \cup {Outcome("ok", r) : r \in RawTexts}
        \cup {Outcome("status", <<"a">>)}

\* what the backend that is not asked first would do: fail, or answer
IdleOutcomes == {Outcome("network", <<>>), Outcome("ok", <<"a">>)}

Answering == Outcome("ok", <<"a">>)

\* the backend that is asked first draws from all its outcomes; what the other
\* one would do is varied when the first does not answer
OutcomeChoices ==
    IF currentProvider \notin RealProviders THEN [RealProviders -> IdleOutcomes]
    ELSE UNION {
            {[p \in RealProviders |-> IF p = currentProvider THEN x ELSE y] :
                y \in (IF x.kind \in {"ok", "status"} THEN {Answering} ELSE IdleOutcomes)} :
            x \in (IF currentProvider = ProviderLocal THEN LocalOutcomes ELSE HostedOutcomes)}

FirstAnswers(o) ==
    currentProvider \in RealProviders /\ o[currentProvider].kind \in {"ok", "status"}

\* a failed call is the result -1
\* Query is asked for QueryLimit documents at most
QueryResults == (-1)..(IF MaxDocs < QueryLimit THEN MaxDocs ELSE QueryLimit)
SearchResults == (-1)..1

Turn(message, history, found, pickContext, outcomes, results, pick) ==
    [message |-> message, history |-> history, found |-> found,
     pickContext |-> pickContext, outcomes |-> outcomes, results |-> results,
     pick |-> pick]

\* turns that vary the message and what the backends do, with no history and
\* no document found; the draws that the turn does not use are 0
BackendTurns ==
    UNION {
        {Turn(m, <<>>, 0, 0, o, r, k) :
            r \in (IF currentProvider = ProviderChatGPT /\ ShouldSearch(TrimSpace(m))
                   THEN SearchResults ELSE {0}),
            k \in (IF ~FirstAnswers(o) /\ ContainsAny(ToLower(m), greetingWords)
                   THEN 0..2 ELSE {0})} :
        m \in Messages, o \in OutcomeChoices}

\* turns that vary what context assembly is given, with one message; where the
\* placeholder generator is not called, its draw is the one it would have made
ContextTurns ==
    UNION {
        {Turn(<<"n", "o", "w">>, h, f, c, o, 0, 0) :
            c \in (IF Len(h) = 0 /\ (f <= 0 \/ ~enableRAG) THEN 0..2 ELSE {2})} :
        h \in Histories, f \in (IF enableRAG THEN QueryResults ELSE {0}),
        o \in {[p \in RealProviders |-> x] : x \in IdleOutcomes}}

\* turns in which the retrieval query and the web search fail or succeed, with
\* backends that answer
AugmentationTurns ==
    {Turn(<<"n", "o", "w">>, h, f, 0, [p \in RealProviders |-> Answering], r, 0) :
        h \in {<<>>, HistoryOfLen(MaxHistory)},
        f \in (IF enableRAG THEN {-1, MaxDocs} ELSE {0}),
        r \in (IF currentProvider = ProviderChatGPT /\ SearchIsEnabled
               THEN {-1, MaxDocs} ELSE {0})}

\* turns that ask a question, with backends that answer
QuestionTurns ==
    {Turn(HowTo, <<>>, 0, 0, [p \in RealProviders |-> Answering], r, 0) :
        r \in (IF currentProvider = ProviderChatGPT /\ ShouldSearch(HowTo)
               THEN SearchResults ELSE {0})}

Turns == BackendTurns \cup ContextTurns \cup AugmentationTurns \cup QuestionTurns

(***************************************************************************)
(* Operations.                                                             *)
(***************************************************************************)
ProviderState ==
    [currentProvider |-> currentProvider,
     preferredProvider |-> preferredProvider,
     providerCheckCache |-> providerCheckCache]

\* ProcessMessage demoting the orchestrator to the provider that answered
ProcessMessageWithDemoting(current, message, history, found, pickContext, outcomes, results, pick) ==
    LET trimmed == TrimSpace(message)
        context == generateContextWithHistory(trimmed, history, found, pickContext)
        generated == generateResponse(current, trimmed, context, history, outcomes,
                                      results, pick)
    IN /\ resp' = ChatResponse(generated, context, outcomes)
       /\ turn' = [message |-> message, history |-> history, found |-> found,
                   pickContext |-> pickContext, outcomes |-> outcomes,
                   results |-> results, pick |-> pick,
                   request |-> RequestOf(current, trimmed, context, history, results)]
       /\ lastOp' = "ProcessMessage"
       /\ lastProbes' = {}
       /\ before' = ProviderState
       /\ currentProvider' = generated.usedProvider
       /\ UNCHANGED <<preferredProvider, providerCheckCache, llmService,
                      chatgptService, apiKey, searchService, enableRAG, localUp>>
       /\ UNCHANGED <<bufVars, pureVars>>

\* the whole of ProcessMessage for one choice of inputs
ProcessMessageWith(current, message, history, found, pickContext, outcomes, results, pick) ==
    LET trimmed == TrimSpace(message)
        context == generateContextWithHistory(trimmed, history, found, pickContext)
        generated == generateResponse(current, trimmed, context, history, outcomes,
                                      results, pick)
    IN /\ resp' = ChatResponse(generated, context, outcomes)
       /\ turn' = [message |-> message, history |-> history, found |-> found,
                   pickContext |-> pickContext, outcomes |-> outcomes,
                   results |-> results, pick |-> pick,
                   request |-> RequestOf(current, trimmed, context, history, results)]
       /\ lastOp' = "ProcessMessage"
       /\ lastProbes' = {}
       /\ before' = ProviderState
       /\ UNCHANGED <<preferredProvider, currentProvider, providerCheckCache, llmService,
                      chatgptService, apiKey, searchService, enableRAG, localUp>>
       /\ UNCHANGED <<bufVars, pureVars>>

ProcessMessage ==
    /\ \E t \in Turns :
          ProcessMessageWith(currentProvider, t.message, t.history, t.found, t.pickContext, t.outcomes,
                             t.results, t.pick)
    /\ UNCHANGED <<access, front>>

\* refreshProviderStatus without its forced-mode return
refreshProviderStatusUnguarded ==
    LET localAvailable == llmService /\ localUp
        chatgptAvailable == chatgptService /\ apiKey
    IN /\ lastProbes' = {p \in RealProviders :
                            IF p = ProviderLocal THEN llmService ELSE chatgptService}
       /\ providerCheckCache' =
             [p \in RealProviders |->
                 IF p = ProviderLocal
                 THEN IF llmService THEN localAvailable ELSE providerCheckCache[p]
                 ELSE IF chatgptService THEN chatgptAvailable ELSE providerCheckCache[p]]
       /\ currentProvider' =
             IF currentProvider = ProviderLocal /\ ~localAvailable /\ chatgptAvailable
             THEN ProviderChatGPT
             ELSE IF currentProvider = ProviderChatGPT /\ ~chatgptAvailable /\ localAvailable
             THEN ProviderLocal
             ELSE currentProvider

\* refreshProviderStatus leaving Dummy as soon as the local backend is up
refreshProviderStatusRecovering ==
    IF preferredProvider = ProviderChatGPT \/ preferredProvider = ProviderLocal
    THEN /\ lastProbes' = {}
         /\ UNCHANGED <<currentProvider, providerCheckCache>>
    ELSE LET localAvailable == llmService /\ localUp
             chatgptAvailable == chatgptService /\ ChatGPTIsAvailable
         IN /\ lastProbes' = {p \in RealProviders :
                                 IF p = ProviderLocal THEN llmService ELSE chatgptService}
            /\ providerCheckCache' =
                  [p \in RealProviders |->
                      IF p = ProviderLocal
                      THEN IF llmService THEN localAvailable ELSE providerCheckCache[p]
                      ELSE IF chatgptService THEN chatgptAvailable ELSE providerCheckCache[p]]
            /\ currentProvider' =
                  IF currentProvider = ProviderLocal /\ ~localAvailable /\ chatgptAvailable
                  THEN ProviderChatGPT
                  ELSE IF currentProvider = ProviderChatGPT /\ ~chatgptAvailable /\ localAvailable
                  THEN ProviderLocal
                  ELSE IF currentProvider = ProviderDummy /\ localAvailable
                  THEN ProviderLocal
                  ELSE currentProvider

\* refreshProviderStatus switching back to the local backend as soon as it is up
refreshProviderStatusEager ==
    IF preferredProvider = ProviderChatGPT \/ preferredProvider = ProviderLocal
    THEN /\ lastProbes' = {}
         /\ UNCHANGED <<currentProvider, providerCheckCache>>
    ELSE LET localAvailable == llmService /\ localUp
             chatgptAvailable == chatgptService /\ apiKey
         IN /\ lastProbes' = {p \in RealProviders :
                                 IF p = ProviderLocal THEN llmService ELSE chatgptService}
            /\ providerCheckCache' =
                  [p \in RealProviders |->
                      IF p = ProviderLocal THEN localAvailable ELSE chatgptAvailable]
            /\ currentProvider' =
                  IF currentProvider = ProviderLocal /\ ~localAvailable /\ chatgptAvailable
                  THEN ProviderChatGPT
                  ELSE IF currentProvider = ProviderChatGPT /\ localAvailable
                  THEN ProviderLocal
                  ELSE currentProvider

\* the body of refreshProviderStatus
refreshProviderStatus ==
    IF preferredProvider = ProviderChatGPT \/ preferredProvider = ProviderLocal
    THEN /\ lastProbes' = {}
         /\ UNCHANGED <<currentProvider, providerCheckCache>>
    ELSE LET localAvailable == llmService /\ localUp
             chatgptAvailable == chatgptService /\ ChatGPTIsAvailable
         IN /\ lastProbes' = {p \in RealProviders :
                                 IF p = ProviderLocal THEN llmService ELSE chatgptService}
            /\ providerCheckCache' =
                  [p \in RealProviders |->
                      IF p = ProviderLocal
                      THEN IF llmService THEN localAvailable ELSE providerCheckCache[p]
                      ELSE IF chatgptService THEN chatgptAvailable ELSE providerCheckCache[p]]
            /\ currentProvider' =
                  IF currentProvider = ProviderLocal /\ ~localAvailable /\ chatgptAvailable
                  THEN ProviderChatGPT
                  ELSE IF currentProvider = ProviderChatGPT /\ ~chatgptAvailable /\ localAvailable
                  THEN ProviderLocal
                  ELSE currentProvider

\* the body of RefreshProviders
RefreshProvidersBody ==
    IF preferredProvider = ProviderChatGPT \/ preferredProvider = ProviderLocal
    THEN /\ lastProbes' = {}
         /\ UNCHANGED <<currentProvider, providerCheckCache>>
    ELSE LET localAvailable == llmService /\ localUp
             chatgptAvailable == chatgptService /\ ChatGPTIsAvailable
         IN /\ lastProbes' = {p \in RealProviders :
                                 IF p = ProviderLocal THEN llmService ELSE chatgptService}
            /\ currentProvider' = IF localAvailable THEN ProviderLocal
                                  ELSE IF chatgptAvailable THEN ProviderChatGPT
                                  ELSE ProviderDummy
            /\ UNCHANGED providerCheckCache

\* the body of Reset
ResetBody ==
    /\ lastProbes' = {p \in RealProviders :
                         IF p = ProviderLocal THEN llmService ELSE chatgptService}
    /\ providerCheckCache' =
          [p \in RealProviders |->
              IF p = ProviderLocal THEN llmService /\ localUp
              ELSE chatgptService /\ ChatGPTIsAvailable]
    /\ UNCHANGED currentProvider

Frame ==
    /\ resp' = NoResponse
    /\ turn' = NoTurn
    /\ before' = ProviderState
    /\ UNCHANGED <<preferredProvider, llmService, chatgptService, apiKey, searchService,
                   enableRAG, localUp>>
    /\ UNCHANGED <<bufVars, pureVars, front>>

RefreshProviderStatus ==
    /\ refreshProviderStatus
    /\ lastOp' = "refreshProviderStatus"
    /\ Frame
    /\ UNCHANGED access

RefreshProviders ==
    /\ RefreshProvidersBody
    /\ lastOp' = "RefreshProviders"
    /\ Frame
    /\ UNCHANGED access

Reset ==
    /\ ResetBody
    /\ lastOp' = "Reset"
    /\ Frame
    /\ UNCHANGED access

\* the environment: the local inference server goes down or comes up
LocalServerChanges ==
    /\ localUp' = ~localUp
    /\ lastOp' = "environment"
    /\ lastProbes' = {}
    /\ before' = ProviderState
    /\ resp' = NoResponse
    /\ turn' = NoTurn
    /\ UNCHANGED <<preferredProvider, currentProvider, providerCheckCache, llmService,
                   chatgptService, apiKey, searchService, enableRAG, access>>
    /\ UNCHANGED <<bufVars, pureVars, front>>

Next ==
    \/ ProcessMessage
    \/ RefreshProviderStatus
    \/ RefreshProviders
    \/ Reset
    \/ LocalServerChanges

Spec == Init /\ [][Next]_vars

(***************************************************************************)
(* Concurrent callers.  Every request runs ProcessMessage on a worker of   *)
(* its own, and the refresh operations and Reset are exported methods of   *)
(* the same Chatbot.  Chatbot has no mutex: an operation starts without    *)
(* waiting for any other.  access[w] names the operation worker w is in    *)
(* the middle of; its effect takes place when it finishes.                 *)
(***************************************************************************)
Writers == {"refreshProviderStatus", "RefreshProviders", "Reset"}
CurrentWriters == {"refreshProviderStatus", "RefreshProviders"}
CacheWriters == {"refreshProviderStatus", "Reset"}

Running == lastOp # "fatal"

Start(w, op) ==
    /\ Running
    /\ access[w] = "none"
    /\ op \in CurrentWriters => preferredProvider = AutoDetect
    /\ access' = [access EXCEPT ![w] = op]
    /\ UNCHANGED <<preferredProvider, currentProvider, providerCheckCache, llmService,
                   chatgptService, apiKey, searchService, enableRAG, localUp, lastOp,
                   lastProbes, before, resp, turn>>
    /\ UNCHANGED <<bufVars, pureVars, front>>

Finish(w, op) ==
    /\ Running
    /\ access[w] = op
    /\ access' = [access EXCEPT ![w] = "none"]

\* what a read of c.currentProvider by worker w returns: the stored value, or,
\* when another worker is in the middle of writing it, any value that worker can
\* store or a torn mix of the two strings
ReadCurrent(w) ==
    IF \E v \in Workers \ {w} : access[v] \in CurrentWriters
    THEN Providers \cup {"torn"}
    ELSE {currentProvider}

FinishProcessMessage(w) ==
    /\ Finish(w, "ProcessMessage")
    /\ \E current \in ReadCurrent(w), outcomes \in [RealProviders -> IdleOutcomes] :
          ProcessMessageWith(current, <<"n", "o", "w">>, <<>>, 0, 0, outcomes, 0, 0)
    /\ UNCHANGED front

FinishRefreshProviderStatus(w) ==
    /\ Finish(w, "refreshProviderStatus")
    /\ refreshProviderStatus
    /\ lastOp' = "refreshProviderStatus"
    /\ Frame

FinishRefreshProviders(w) ==
    /\ Finish(w, "RefreshProviders")
    /\ RefreshProvidersBody
    /\ lastOp' = "RefreshProviders"
    /\ Frame

FinishReset(w) ==
    /\ Finish(w, "Reset")
    /\ ResetBody
    /\ lastOp' = "Reset"
    /\ Frame

\* two workers writing the cache map at once: the runtime may detect it and
\* stop the process
ConcurrentMapWrites ==
    /\ Running
    /\ \E w, v \in Workers :
          w # v /\ access[w] \in CacheWriters /\ access[v] \in CacheWriters
    /\ lastOp' = "fatal"
    /\ UNCHANGED <<preferredProvider, currentProvider, providerCheckCache, llmService,
                   chatgptService, apiKey, searchService, enableRAG, localUp,
                   lastProbes, before, resp, turn, turn, access>>
    /\ UNCHANGED <<bufVars, pureVars, front>>

LocalServerChangesWhileRunning ==
    /\ Running
    /\ LocalServerChanges

ConcInit == Init /\ ~enableRAG /\ searchService = "nil"

ConcNext ==
    \/ \E w \in Workers, op \in Writers \cup {"ProcessMessage"} : Start(w, op)
    \/ \E w \in Workers : FinishProcessMessage(w)
    \/ \E w \in Workers : FinishRefreshProviderStatus(w)
    \/ \E w \in Workers : FinishRefreshProviders(w)
    \/ \E w \in Workers : FinishReset(w)
    \/ ConcurrentMapWrites
    \/ LocalServerChangesWhileRunning

SpecConc == ConcInit /\ [][ConcNext]_vars

(***************************************************************************)
(* The per-channel buffer of recent messages (services/rag.go).  A worker  *)
(* runs AddDiscordMessage or getDiscordContext one statement at a time;    *)
(* messagesMutex is held from the first statement to the return.           *)
(***************************************************************************)
BufferCapacity == 10
ContextLimit == 10

\* the message with a given id: every third one is written by a bot, every
\* fourth one has a content of at most 10 characters
DiscordMessage(id) == [id |-> id, IsBot |-> id % 3 = 0, long |-> id % 4 # 0]

Reverse(s) == [i \in 1..Len(s) |-> s[Len(s) + 1 - i]]

Take(s, n) == SubSeq(s, 1, IF Len(s) < n THEN Len(s) ELSE n)

\* AddDiscordMessage keeping the oldest messages of a full buffer
KeepLastOldest(messages) ==
    IF Len(messages) > BufferCapacity
    THEN SubSeq(messages, 2, Len(messages))
    ELSE messages

\* the truncation at the end of AddDiscordMessage
KeepLast(messages) ==
    IF Len(messages) > BufferCapacity
    THEN SubSeq(messages, 1, BufferCapacity)
    ELSE messages

\* the body of getDiscordContext on the list it finds
getDiscordContext(messages, limit) ==
    LET eligible(m) == ~m.IsBot /\ m.long
    IN Reverse(SelectSeq(Take(messages, limit), eligible))

\* messagesMutex.Lock taken without excluding anybody
LockSkipped(w) == messagesMutex' = messagesMutex

Lock(w) ==
    /\ messagesMutex.writer = 0
    /\ messagesMutex.readers = {}
    /\ messagesMutex' = [messagesMutex EXCEPT !.writer = w]

Unlock(w) == messagesMutex' = [messagesMutex EXCEPT !.writer = 0]

RLock(w) ==
    /\ messagesMutex.writer = 0
    /\ messagesMutex' = [messagesMutex EXCEPT !.readers = @ \cup {w}]

RUnlock(w) == messagesMutex' = [messagesMutex EXCEPT !.readers = @ \ {w}]

Added == LET Sum[cs \in SUBSET Channels] ==
                 IF cs = {} THEN 0
                 ELSE LET ch == CHOOSE x \in cs : TRUE
                      IN Len(inserted[ch]) + Sum[cs \ {ch}]
         IN Sum[Channels]

At(w, op, at) == pc[w].op = op /\ pc[w].at = at

AddLock(w, channelID) ==
    /\ pc[w] = Idle
    /\ Added < MaxInserts
    /\ Lock(w)
    /\ pc' = [pc EXCEPT ![w] = [Idle EXCEPT !.op = "AddDiscordMessage",
                                            !.channelID = channelID, !.at = "locked"]]
    /\ UNCHANGED <<discordMessages, inserted, chatVars, pureVars, front>>

AddPrepend(w) ==
    /\ At(w, "AddDiscordMessage", "locked")
    /\ LET message == DiscordMessage(Added + 1)
           channelID == pc[w].channelID
       IN /\ discordMessages' =
                [discordMessages EXCEPT ![channelID] = <<message>> \o @]
          /\ inserted' = [inserted EXCEPT ![channelID] = Append(@, message)]
    /\ pc' = [pc EXCEPT ![w].at = "prepended"]
    /\ UNCHANGED <<messagesMutex, chatVars, pureVars, front>>

AddTruncate(w) ==
    /\ At(w, "AddDiscordMessage", "prepended")
    /\ discordMessages' = [discordMessages EXCEPT ![pc[w].channelID] = KeepLast(@)]
    /\ pc' = [pc EXCEPT ![w].at = "truncated"]
    /\ UNCHANGED <<messagesMutex, inserted, chatVars, pureVars, front>>

AddUnlock(w) ==
    /\ At(w, "AddDiscordMessage", "truncated")
    /\ Unlock(w)
    /\ pc' = [pc EXCEPT ![w] = Idle]
    /\ UNCHANGED <<discordMessages, inserted, chatVars, pureVars, front>>

GetLock(w, channelID) ==
    /\ pc[w] = Idle
    /\ RLock(w)
    /\ pc' = [pc EXCEPT ![w] = [Idle EXCEPT !.op = "getDiscordContext",
                                            !.channelID = channelID, !.at = "rlocked"]]
    /\ UNCHANGED <<discordMessages, inserted, chatVars, pureVars, front>>

GetRead(w) ==
    /\ At(w, "getDiscordContext", "rlocked")
    /\ pc' = [pc EXCEPT ![w].at = "read",
                        ![w].messages = discordMessages[pc[w].channelID],
                        ![w].context = getDiscordContext(discordMessages[pc[w].channelID],
                                                         ContextLimit)]
    /\ UNCHANGED <<discordMessages, messagesMutex, inserted, chatVars, pureVars, front>>

GetUnlock(w) ==
    /\ At(w, "getDiscordContext", "read")
    /\ RUnlock(w)
    /\ pc' = [pc EXCEPT ![w] = Idle]
    /\ UNCHANGED <<discordMessages, inserted, chatVars, pureVars, front>>

BufInit ==
    /\ Init
    /\ preferredProvider = AutoDetect
    /\ localUp /\ apiKey /\ enableRAG
    /\ searchService = "nil"

BufNext ==
    \/ \E w \in Workers, channelID \in Channels : AddLock(w, channelID)
    \/ \E w \in Workers : AddPrepend(w)
    \/ \E w \in Workers : AddTruncate(w)
    \/ \E w \in Workers : AddUnlock(w)
    \/ \E w \in Workers, channelID \in Channels : GetLock(w, channelID)
    \/ \E w \in Workers : GetRead(w)
    \/ \E w \in Workers : GetUnlock(w)

SpecBuf == BufInit /\ [][BufNext]_vars

(***************************************************************************)
(* The output cleanup and the canned-response generator as functions: a    *)
(* call is made on an input and made once more, the cleanup on its own     *)
(* output, the generator on the same message.                              *)
(***************************************************************************)
Repeat(c, n) == [i \in 1..n |-> c]

Sentence(n) == Repeat("a", n) \o <<".", " ">>

CleanBodies ==
    { <<>>,
      <<"a">>,
      <<"a", ".", " ", ".">>,
      <<"a", " ", "b">>,
      Repeat("a", ResponseBudget),
      Repeat("a", ResponseBudget + 1),
      Sentence(100) \o Sentence(100) \o Repeat("a", 150),
      Sentence(200) \o Sentence(200) \o Repeat("a", 10),
      Sentence(200) \o Repeat("a", 150) }

CleanLeads == { <<>>, <<" ">> }

CleanTails ==
    { <<>>,
      <<".">>,
      <<" ", ".">>,
      <<"!", " ">>,
      <<"\n", "H", "u", "m", "a", "n", ":", " ", "b">>,
      <<"\n", "\n", "H", "u", "m", "a", "n", ":">>,
      <<"\n", "U", "s", "e", "r", ":", "b">>,
      <<"\n", "Q", ":", " ", "x", "\n", "H", "u", "m", "a", "n", ":", " ", "y">> }

CleanInputs == {lead \o body \o tail : lead \in CleanLeads, body \in CleanBodies,
                                       tail \in CleanTails}

DummyMessages ==
    { <<>>,
      <<"H", "i">>,
      <<"H", "A", "I">>,
      <<"c", "h", "a", "t", "g", "p", "t">>,
      <<"r", "a", "g">>,
      <<"n", "o", "w">> }

CleanCall ==
    /\ call = NoCall
    /\ \E raw \in CleanInputs :
          /\ call' = [NoCall EXCEPT !.op = "cleanResponse", !.text = raw]
          /\ returned' = <<cleanResponse(raw)>>
    /\ UNCHANGED <<chatVars, bufVars, front>>

CleanAgain ==
    /\ call.op = "cleanResponse"
    /\ Len(returned) = 1
    /\ returned' = Append(returned, cleanResponse(returned[1]))
    /\ UNCHANGED <<call, chatVars, bufVars, front>>

DummyCall ==
    /\ call = NoCall
    /\ \E message \in DummyMessages, historyLength \in 0..MaxHistory, pick \in 0..2 :
          /\ call' = [NoCall EXCEPT !.op = "generateDummyResponse", !.text = message,
                                    !.historyLength = historyLength]
          /\ returned' = <<generateDummyResponse(currentProvider, message,
                                                 historyLength, pick)>>
    /\ UNCHANGED <<chatVars, bufVars, front>>

DummyAgain ==
    /\ call.op = "generateDummyResponse"
    /\ Len(returned) = 1
    /\ \E historyLength \in 0..MaxHistory, pick \in 0..2 :
          /\ call' = [call EXCEPT !.historyAgain = historyLength]
          /\ returned' = Append(returned,
                                generateDummyResponse(currentProvider, call.text,
                                                      historyLength, pick))
    /\ UNCHANGED <<chatVars, bufVars, front>>

(***************************************************************************)
(* Sending a reply to Discord.  What sendMessage returns here is the list  *)
(* of the texts it hands to ChannelMessageSend, one per call.              *)
(***************************************************************************)
DiscordLimit == 2000
ChunkLength == 1900

Continued == <<".", ".", ".", "c", "o", "n", "t", "i", "n", "u", "e", "d", ":", "\n">>
Ellipsis == <<"\n", ".", ".", ".">>

\* the loop of splitMessage and what follows it
RECURSIVE splitLoop(_, _)
splitLoop(message, maxLength) ==
    IF Len(message) > maxLength
    THEN LET spaceIndex == LastIndex(SubSeq(message, 1, maxLength), " ")
             splitIndex == IF spaceIndex > maxLength \div 2 THEN spaceIndex ELSE maxLength
             rest == SubSeq(message, splitIndex + 1, Len(message))
             next == IF HasPrefix(rest, <<" ">>) THEN Tail(rest) ELSE rest
         IN <<SubSeq(message, 1, splitIndex)>> \o splitLoop(next, maxLength)
    ELSE IF Len(message) > 0 THEN <<message>> ELSE <<>>

\* DiscordService.splitMessage
splitMessage(message, maxLength) ==
    IF Len(message) <= maxLength THEN <<message>> ELSE splitLoop(message, maxLength)

\* sendMessage sending every reply in one piece
sendMessageWhole(message) == <<message>>

\* DiscordService.sendMessage
sendMessage(message) ==
    IF Len(message) <= DiscordLimit THEN <<message>>
    ELSE LET chunks == splitMessage(message, ChunkLength)
         IN [i \in 1..Len(chunks) |->
                (IF i > 1 THEN Continued ELSE <<>>)
                   \o chunks[i]
                   \o (IF i < Len(chunks) THEN Ellipsis ELSE <<>>)]

\* the replies sent: short ones, ones at and just over the limit, ones with a
\* space at, before and after the places where a chunk may end
Replies ==
    { <<"H", "i">>,
      Repeat("a", DiscordLimit),
      Repeat("a", DiscordLimit + 1),
      Repeat("a", ChunkLength - 1) \o <<" ">> \o Repeat("a", 200),
      Repeat("a", ChunkLength \div 2) \o <<" ">> \o Repeat("a", ChunkLength),
      Repeat("a", ChunkLength \div 2 + 1) \o <<" ">> \o Repeat("a", ChunkLength),
      Repeat("a", ChunkLength) \o <<" ">> \o Repeat("a", ChunkLength) \o <<" ">>
         \o Repeat("a", ChunkLength + 1),
      Repeat("a", 3 * ChunkLength) }

SendCall ==
    /\ call = NoCall
    /\ \E message \in Replies :
          /\ call' = [NoCall EXCEPT !.op = "sendMessage", !.text = message]
          /\ returned' = sendMessage(message)
    /\ UNCHANGED <<chatVars, bufVars, front>>

(***************************************************************************)
(* Loading the environment files.  `files` says of each location whether   *)
(* the file is "missing", "present", or "unreadable" (it exists and cannot *)
(* be opened or read).                                                     *)
(***************************************************************************)
locations == <<".env", ".env.local", "config/.env">>

FileKinds == {"missing", "present", "unreadable"}

\* LoadEnv: a missing file is no error
LoadEnv(kind) ==
    CASE kind = "missing" -> [err |-> FALSE, loaded |-> FALSE]
      [] kind = "present" -> [err |-> FALSE, loaded |-> TRUE]
      [] OTHER -> [err |-> TRUE, loaded |-> FALSE]

\* the loop of LoadEnvWithFallback from location i on: the locations loaded
RECURSIVE tryLocations(_, _)
tryLocations(files, i) ==
    IF i > Len(locations) THEN <<>>
    ELSE LET r == LoadEnv(files[i])
         IN IF r.err THEN tryLocations(files, i + 1)
            ELSE IF r.loaded THEN <<locations[i]>> ELSE <<>>

LoadEnvWithFallback(files) == tryLocations(files, 1)

LoadEnvCall ==
    /\ call = NoCall
    /\ \E files \in [1..Len(locations) -> FileKinds] :
          /\ call' = [NoCall EXCEPT !.op = "LoadEnvWithFallback", !.files = files]
          /\ returned' = LoadEnvWithFallback(files)
    /\ UNCHANGED <<chatVars, bufVars, front>>

\* a history of n entries, every third of which is neither a user's nor the
\* assistant's
RoledHistory(n) ==
    [i \in 1..n |-> [role |-> IF i % 3 = 1 THEN "user"
                              ELSE IF i % 3 = 2 THEN "assistant" ELSE "system",
                     content |-> i]]

BuildMessagesCall ==
    /\ call = NoCall
    /\ \E message \in DummyMessages, n \in 0..MaxTurns, c \in 0..1 :
          /\ call' = [NoCall EXCEPT !.op = "buildMessages", !.text = message,
                                    !.historyLength = n, !.contextLength = c]
          /\ returned' = <<buildMessages(message, Items("document", c), RoledHistory(n))>>
    /\ UNCHANGED <<chatVars, bufVars, front>>

BuildPromptCall ==
    /\ call = NoCall
    /\ \E message \in DummyMessages, n \in 0..MaxTurns, c \in 0..1 :
          /\ call' = [NoCall EXCEPT !.op = "buildPrompt", !.text = message,
                                    !.historyLength = n, !.contextLength = c]
          /\ returned' = <<buildPrompt(message, Items("document", c), RoledHistory(n))>>
    /\ UNCHANGED <<chatVars, bufVars, front>>

PureInit == Init /\ ~enableRAG /\ searchService = "nil"

PureNext ==
    \/ CleanCall
    \/ CleanAgain
    \/ DummyCall
    \/ DummyAgain
    \/ BuildMessagesCall
    \/ BuildPromptCall
    \/ SendCall
    \/ LoadEnvCall

SpecPure == PureInit /\ [][PureNext]_vars

(***************************************************************************)
(* The front ends: the HTTP chat handler (controllers/chat_controller.go)  *)
(* and the Discord listener (DiscordService.messageCreate).  `front`       *)
(* records the request, whether ProcessMessage was called for it, and what *)
(* was written back.                                                       *)
(***************************************************************************)
\* the validation of ChatHandler comparing the untrimmed message
IsBlankExact(message) == message = <<>>

\* the validation of ChatHandler: strings.TrimSpace(req.Message) == ""
IsBlank(message) == TrimSpace(message) = <<>>

\* the hint names the command prefix, written here without its quoting marks
UsageHint == <<"Please provide a message after !chat">>

Answered(handler, input, code) ==
    [handler |-> handler, parsed |-> TRUE, input |-> input, called |-> TRUE,
     code |-> code, status |-> resp'.status, message |-> resp'.message, sent |-> TRUE,
     bot |-> FALSE, content |-> <<>>, calls |-> 1]

Refused(handler, parsed, input, code, status, message) ==
    /\ front' = [handler |-> handler, parsed |-> parsed, input |-> input,
                 called |-> FALSE, code |-> code, status |-> status,
                 message |-> message, sent |-> message # <<>>,
                 bot |-> FALSE, content |-> <<>>, calls |-> 0]
    /\ UNCHANGED <<chatVars, bufVars, pureVars>>

\* the requests given to the front ends: every message, the empty one included,
\* with or without a history, and backends that answer or fail
FrontTurns ==
    {Turn(m, h, 0, 0, o, 0, 0) :
        m \in Messages \cup {<<>>},
        h \in {<<>>, HistoryOfLen(MaxHistory)},
        o \in {[p \in RealProviders |-> x] : x \in IdleOutcomes}}

ChatHandler ==
    \/ Refused("ChatHandler", FALSE, <<>>, 405, "", <<"Method not allowed">>)
    \/ Refused("ChatHandler", FALSE, <<>>, 400, "error", <<"Invalid JSON format">>)
    \/ \E t \in FrontTurns :
          IF IsBlank(t.message)
          THEN Refused("ChatHandler", TRUE, t.message, 400, "error",
                       <<"Message cannot be empty">>)
          ELSE /\ ProcessMessageWith(currentProvider, t.message, t.history, t.found,
                                     t.pickContext, t.outcomes, t.results, t.pick)
               /\ front' = Answered("ChatHandler", t.message, 200)
               /\ UNCHANGED access

\* DiscordService.commandPrefix, as configured by default
commandPrefix == <<"!", "c", "h", "a", "t", " ">>

\* messageCreate ignoring only the messages without the command prefix
IgnoredUnlessPrefixed(bot, content) == ~HasPrefix(content, commandPrefix)

\* the two early returns of messageCreate: the author is a bot, or the content
\* does not start with the command prefix
Ignored(bot, content) == bot \/ ~HasPrefix(content, commandPrefix)

\* `fetched` is whether the recent messages of the channel could be fetched;
\* `bot` is m.Author.Bot and `content` is m.Content
MessageCreate ==
    \E t \in FrontTurns, fetched \in (IF enableRAG THEN BOOLEAN ELSE {FALSE}),
       bot \in BOOLEAN, prefixed \in BOOLEAN :
        LET content == IF prefixed THEN commandPrefix \o t.message ELSE t.message
            rest == SubSeq(content, Len(commandPrefix) + 1, Len(content))
            chatMessage == TrimSpace(rest)
            messageHistory == IF enableRAG /\ fetched THEN t.history ELSE <<>>
        IN IF Ignored(bot, content)
           THEN /\ front' = [NoRequest EXCEPT !.handler = "messageCreate", !.bot = bot,
                                              !.content = content]
                /\ UNCHANGED <<chatVars, bufVars, pureVars>>
           ELSE IF chatMessage = <<>>
           THEN /\ front' = [NoRequest EXCEPT !.handler = "messageCreate", !.bot = bot,
                                              !.content = content, !.parsed = TRUE,
                                              !.input = rest, !.message = UsageHint,
                                              !.sent = TRUE]
                /\ UNCHANGED <<chatVars, bufVars, pureVars>>
           ELSE /\ ProcessMessageWith(currentProvider, chatMessage, messageHistory,
                                      t.found, t.pickContext, t.outcomes, t.results,
                                      t.pick)
                /\ front' = [Answered("messageCreate", rest, 0) EXCEPT
                                !.bot = bot, !.content = content]
                /\ UNCHANGED access

FrontNext ==
    \/ ChatHandler
    \/ MessageCreate

SpecFront == Init /\ [][FrontNext]_vars

(***************************************************************************)
(* Properties of the orchestrator.                                         *)
(***************************************************************************)
Turned == lastOp = "ProcessMessage"
Constructed == lastOp = "NewChatbot"
Refreshed == lastOp \in {"refreshProviderStatus", "RefreshProviders"}
Forced == preferredProvider \in RealProviders

\* what an availability probe of backend p answers in this state
Available(p) == IF p = ProviderLocal THEN localUp ELSE apiKey

\* the backend the last turn asked first did not answer
FirstFailed ==
    /\ Turned
    /\ currentProvider \in resp.called
    /\ ~resp.answers[currentProvider]

\* C1: every ProcessMessage call returns a response whose status is "success",
\* whatever the provider and whatever the backend, retrieval and search calls do.
C1_StatusAlwaysSuccess == Turned => resp.status = "success"

C1_Witness ==
    /\ FirstFailed
    /\ resp.usedProvider = ProviderDummy
    /\ resp.status = "success"

\* C2: in forced mode, when the preferred backend's generate call fails, the
\* reply comes from the Dummy generator and the other real backend is not called.
C2_ForcedNeverCrosses ==
    (Forced /\ FirstFailed) =>
        /\ resp.usedProvider = ProviderDummy
        /\ resp.called = {preferredProvider}

C2_Witness ==
    /\ Forced
    /\ FirstFailed
    /\ resp.answers[preferredProvider] = FALSE
    /\ resp.usedProvider = ProviderDummy

C4_MessageNonEmpty == Turned => Len(resp.message) > 0

\* C5: currentProvider is always one of Local, Hosted and Dummy, never unset.
C5_CurrentProviderSet == currentProvider \in Providers

C5_Witness ==
    /\ lastOp = "RefreshProviders"
    /\ before.currentProvider = ProviderLocal
    /\ currentProvider = ProviderDummy

\* C6: at construction in forced mode the preferred backend is selected if it is
\* available, otherwise the other real backend if that is available, and Dummy
\* only if neither is.
C6_ForcedConstructionFallsBack ==
    (Constructed /\ Forced) =>
        currentProvider = IF Available(preferredProvider) THEN preferredProvider
                          ELSE IF Available(OtherProvider(preferredProvider))
                          THEN OtherProvider(preferredProvider)
                          ELSE ProviderDummy

\* C7: at construction in auto mode currentProvider is Local if the local probe
\* succeeds, otherwise Hosted if it is available, otherwise Dummy.
C7_AutoConstruction ==
    (Constructed /\ preferredProvider = AutoDetect) =>
        currentProvider = IF localUp THEN ProviderLocal
                          ELSE IF apiKey THEN ProviderChatGPT
                          ELSE ProviderDummy

C7_Witness ==
    /\ Constructed
    /\ preferredProvider = AutoDetect
    /\ ~localUp
    /\ apiKey
    /\ currentProvider = ProviderChatGPT

\* a refresh changed currentProvider only from an unavailable active backend to
\* an available alternate, and not at all with both backends up or both down
Hysteresis ==
    /\ currentProvider # before.currentProvider =>
          /\ before.currentProvider \in RealProviders
          /\ ~Available(before.currentProvider)
          /\ currentProvider = OtherProvider(before.currentProvider)
          /\ Available(currentProvider)
    /\ (localUp = apiKey) => currentProvider = before.currentProvider

\* C8 as stated: in auto mode every refresh entry point switches only from an
\* unavailable active provider to an available alternate, and never when both
\* backends are up or both are down.
C8_NoFlappingAnyRefresh ==
    (Refreshed /\ preferredProvider = AutoDetect) => Hysteresis

\* C8 as amended: in auto mode refreshProviderStatus switches only from an
\* unavailable active provider to an available alternate and never when both
\* backends are up or both down; RefreshProviders re-selects from the fresh
\* probes: Local if available, else Hosted if available, else Dummy.
C8_RefreshInAutoMode ==
    preferredProvider = AutoDetect =>
        /\ lastOp = "refreshProviderStatus" => Hysteresis
        /\ lastOp = "RefreshProviders" =>
              currentProvider = IF localUp THEN ProviderLocal
                                ELSE IF apiKey THEN ProviderChatGPT
                                ELSE ProviderDummy

C8_Witness ==
    /\ lastOp = "refreshProviderStatus"
    /\ preferredProvider = AutoDetect
    /\ before.currentProvider = ProviderLocal
    /\ currentProvider = ProviderChatGPT

\* C9: in forced mode a refresh makes no availability probe and leaves
\* currentProvider, preferredProvider and the availability cache unchanged.
C9_ForcedRefreshIsNoOp ==
    (Refreshed /\ Forced) =>
        /\ lastProbes = {}
        /\ ProviderState = before

C9_Witness ==
    /\ lastOp = "refreshProviderStatus"
    /\ preferredProvider = ProviderLocal
    /\ currentProvider = ProviderLocal
    /\ providerCheckCache[ProviderLocal]
    /\ ~localUp

\* C10: ProviderState is guarded by a readers-writer lock: no write to it by a
\* refresh or Reset is concurrent with a read by a ProcessMessage on another
\* worker or with another write.
C10_WritesExclusive ==
    \A w, v \in Workers :
        w # v =>
            /\ access[w] \in CurrentWriters =>
                  access[v] \notin CurrentWriters \cup {"ProcessMessage"}
            /\ access[w] \in CacheWriters => access[v] \notin CacheWriters

\* C11: for every channel the buffer of recent messages holds at most 10
\* messages in every state a reader can observe: in what a getDiscordContext
\* call reads, and whenever no writer holds the mutex.
C11_BufferAtMostTen ==
    /\ \A w \in Workers :
          At(w, "getDiscordContext", "read") => Len(pc[w].messages) <= BufferCapacity
    /\ messagesMutex.writer = 0 =>
          \A ch \in Channels : Len(discordMessages[ch]) <= BufferCapacity

C11_Witness ==
    \E w \in Workers :
        /\ At(w, "getDiscordContext", "read")
        /\ Len(inserted[pc[w].channelID]) > BufferCapacity
        /\ Len(pc[w].messages) = BufferCapacity

\* C12: once no insertion is in progress, every channel's buffer is the 10 most
\* recently inserted messages of that channel, newest first; an insertion into
\* one channel evicts that channel's oldest message and leaves the others alone.
C12_TenMostRecentNewestFirst ==
    messagesMutex.writer = 0 =>
        \A ch \in Channels :
            discordMessages[ch] = Take(Reverse(inserted[ch]), BufferCapacity)

C12_Witness ==
    /\ messagesMutex.writer = 0
    /\ Len(inserted["c1"]) > BufferCapacity
    /\ Len(inserted["c2"]) > 0
    /\ discordMessages["c1"][1] = inserted["c1"][Len(inserted["c1"])]

Cleaned == call.op = "cleanResponse" /\ Len(returned) >= 1
CleanedTwice == call.op = "cleanResponse" /\ Len(returned) = 2
Punctuation == {".", ",", "!", "?", ";", ":"}
EndsInPunctuation(s) == Len(s) > 0 /\ s[Len(s)] \in Punctuation

\* C13 as stated: the cleanup is idempotent: cleaning a cleaned response gives
\* the cleaned response again, for every raw response.
C13_CleanupIdempotent == CleanedTwice => returned[2] = returned[1]

\* C13 as amended: cleaning a cleaned response gives it again whenever the
\* cleaned response does not end in one of . , ! ? ; : and a second cleaning
\* never makes the response longer; a cleaned response that ends in punctuation
\* (the period or the ellipsis added to an over-budget response, or punctuation
\* uncovered by the last trim) loses it to a second cleaning.
C13_IdempotentUnlessPunctuated ==
    CleanedTwice =>
        /\ ~EndsInPunctuation(returned[1]) => returned[2] = returned[1]
        /\ EndsInPunctuation(returned[1]) => returned[2] # returned[1]
        /\ Len(returned[2]) <= Len(returned[1])

C13_Witness ==
    /\ CleanedTwice
    /\ returned[1] # call.text
    /\ Contains(call.text, <<"\n", "Q", ":">>)
    /\ Len(returned[1]) > ResponseBudget - 3
    /\ ~EndsInPunctuation(returned[1])
    /\ returned[2] = returned[1]

\* C14: the cleaned response is never longer than the budget of 300 characters.
C14_WithinBudget == Cleaned => Len(returned[1]) <= ResponseBudget

\* the part of the trimmed raw response before its leftmost continuation marker
BeforeLeftmostMarker(raw) ==
    LET trimmed == TrimSpace(raw)
        marks == {Index(trimmed, stopPatterns[k]) : k \in 1..Len(stopPatterns)} \ {0}
    IN IF marks = {} THEN trimmed
       ELSE SubSeq(trimmed, 1, (CHOOSE i \in marks : \A j \in marks : i <= j) - 1)

\* C15: the trimmed response is truncated at the leftmost occurrence of any
\* continuation marker: the cleaned response contains no marker and is made of
\* the part before the leftmost marker alone.
C15_CutAtLeftmostMarker ==
    Cleaned =>
        /\ \A k \in 1..Len(stopPatterns) : ~Contains(returned[1], stopPatterns[k])
        /\ returned[1] =
              LimitLength(TrimSpace(TrimRightSet(BeforeLeftmostMarker(call.text),
                                                 Punctuation)))

C15_Witness ==
    /\ Cleaned
    /\ Index(call.text, <<"\n", "Q", ":">>) # 0
    /\ Index(call.text, <<"\n", "Q", ":">>) < Index(call.text, <<"\n", "H", "u", "m", "a", "n", ":">>)
    /\ returned[1] = <<"a", " ", "b">>

Generated1 == call.op = "generateDummyResponse" /\ Len(returned) >= 1
GeneratedTwice == call.op = "generateDummyResponse" /\ Len(returned) = 2
IsGreeting(message) == ContainsAny(ToLower(message), greetingWords)

\* C16: the canned-response generator returns a non-empty text for every
\* message, the empty one included, and every history length.
C16_DummyNonEmpty ==
    Generated1 => \A i \in 1..Len(returned) : Len(returned[i]) > 0

C16_Witness ==
    /\ GeneratedTwice
    /\ call.text = <<>>
    /\ call.historyAgain = MaxHistory
    /\ Len(returned[2]) > 0

\* C17 as stated: two calls of the canned-response generator with the same
\* message, the same history length and the same provider state return the
\* same reply.
C17_DummyDeterministic ==
    (GeneratedTwice /\ call.historyLength = call.historyAgain) =>
        returned[1] = returned[2]

\* C17 as amended: for a message without a greeting word (hello, hi, hey) two
\* calls in the same provider state return the same reply whatever the history
\* lengths, which the generator does not use; for a message with a greeting word
\* each call returns one of the three greetings, drawn at random.
C17_DeterministicUnlessGreeting ==
    GeneratedTwice =>
        /\ ~IsGreeting(call.text) => returned[1] = returned[2]
        /\ IsGreeting(call.text) =>
              \A i \in 1..2 : \E k \in 1..Len(greetings) : returned[i] = greetings[k]

C17_Witness ==
    /\ GeneratedTwice
    /\ ~IsGreeting(call.text)
    /\ call.historyLength # call.historyAgain
    /\ returned[1] = returned[2]

\* C18: a message that is empty or only whitespace never reaches
\* ProcessMessage: the HTTP chat handler answers it with status code 400 and
\* status "error", the Discord listener with the usage hint, and neither calls
\* the orchestrator.
C18_BlankMessageRejected ==
    (front.parsed /\ TrimSpace(front.input) = <<>>) =>
        /\ ~front.called
        /\ front.handler = "ChatHandler" => front.code = 400 /\ front.status = "error"
        /\ front.handler = "messageCreate" => front.sent /\ front.message = UsageHint

C18_Witness ==
    /\ front.handler = "ChatHandler"
    /\ front.parsed
    /\ front.input = <<" ">>
    /\ ~front.called
    /\ front.code = 400

FailureKinds == {"network", "status", "decode", "apierror", "nochoices"}

\* C19: a network failure, a non-2xx status, an undecodable payload, a populated
\* error field and an empty choice list each make the generate call of the
\* adapter return a failure, never a text, for both adapters.
C19_AdapterFailuresFail ==
    \A p \in RealProviders :
        (Turned /\ p \in resp.called /\ turn.outcomes[p].kind \in FailureKinds) =>
            resp.usedProvider # p

\* C20: a failure of the retrieval query or of the web search never fails the
\* turn: the failing source adds nothing to the context, the history still makes
\* the context, and the hosted adapter answers whenever its backend does.
C20_AugmentationFailureTolerated ==
    Turned =>
        /\ (enableRAG /\ turn.found < 0) =>
              /\ resp.status = "success"
              /\ \A i \in 1..Len(resp.context) : resp.context[i].kind # "document"
              /\ Len(turn.history) > 0 => Len(resp.context) = Len(turn.history) + 1
        /\ (resp.searched /\ turn.results < 0) =>
              /\ resp.status = "success"
              /\ turn.outcomes[ProviderChatGPT].kind = "ok" =>
                    resp.usedProvider = ProviderChatGPT

C20_Witness ==
    /\ Turned
    /\ enableRAG /\ turn.found < 0
    /\ resp.searched /\ turn.results < 0
    /\ Len(turn.history) > 0
    /\ resp.usedProvider = ProviderChatGPT

\* C21: ProcessMessage never modifies ProviderState: currentProvider,
\* preferredProvider and the availability cache are after the call what they
\* were before it, also when the backend fails and the Dummy generator answers.
C21_TurnKeepsProviderState == Turned => ProviderState = before

C21_Witness ==
    /\ Turned
    /\ resp.called = {ProviderLocal}
    /\ resp.usedProvider = ProviderDummy
    /\ currentProvider = ProviderLocal
    /\ providerCheckCache[ProviderLocal]

\* the items of one kind in a context, in the order they have there
OfKind(context, kind) ==
    LET is(item) == item.kind = kind IN SelectSeq(context, is)

\* where the items of a kind belong in a context
Rank(kind) ==
    IF kind = "document" THEN 1
    ELSE IF kind \in {"header", "history"} THEN 2
    ELSE IF kind = "search" THEN 3
    ELSE 0

\* the documents retrieval returned to a turn
Retrieved == IF enableRAG /\ turn.found > 0 THEN turn.found ELSE 0

\* C22: the context a backend is given lists the document items first, one per
\* document retrieval returned (three at most) in the order of retrieval, then
\* the entries of the caller's history in the caller's order (after the one
\* line announcing them), then the search results, which only the hosted
\* adapter appends.
C22_ContextOrder ==
    (Turned /\ turn.request.provider # "none") =>
        LET context == turn.request.context
        IN /\ \A i, j \in 1..Len(context) :
                 i < j => Rank(context[i].kind) <= Rank(context[j].kind)
           /\ OfKind(context, "document") = Items("document", Retrieved)
           /\ Retrieved <= QueryLimit
           /\ OfKind(context, "history") = Items("history", Len(turn.history))
           /\ OfKind(context, "search") =
                 Items("search", IF resp.searched /\ turn.results > 0
                                 THEN turn.results ELSE 0)
           /\ Len(OfKind(context, "search")) > 0 =>
                 turn.request.provider = ProviderChatGPT
           /\ SubSeq(context, 1, Len(resp.context)) = resp.context

C22_Witness ==
    /\ Turned
    /\ turn.request.provider = ProviderChatGPT
    /\ Len(OfKind(turn.request.context, "document")) >= 2
    /\ Len(OfKind(turn.request.context, "history")) >= 2
    /\ Len(OfKind(turn.request.context, "search")) >= 2

\* C23: when retrieval returned a document or the caller supplied a history,
\* the context holds no placeholder item.
C23_PlaceholdersOnlyWhenEmpty ==
    (Turned /\ resp.status = "success") =>
        ((Retrieved > 0 \/ Len(turn.history) > 0) =>
            Len(OfKind(resp.context, "placeholder")) = 0)

C23_Witness ==
    /\ Turned
    /\ resp.status = "success"
    /\ Retrieved > 0
    /\ Len(turn.history) > 0
    /\ turn.pickContext > 0
    /\ Len(resp.context) = Retrieved + Len(turn.history) + 1

\* whether a lower-cased message holds a word of the recency set or one of the
\* question openings
Matches(lowered) ==
    \/ \E i \in 1..Len(searchKeywords) : Contains(lowered, searchKeywords[i])
    \/ \E i \in 1..Len(questionPatterns) : Contains(lowered, questionPatterns[i])

\* C24: ShouldSearch is true exactly when search is configured and the
\* lower-cased message holds a keyword or a question opening, it is false for
\* every message when search is not configured, and the hosted adapter calls
\* the search backend only when ShouldSearch is true.
C24_SearchDecision ==
    Turned =>
        /\ \A m \in Messages \cup {HowTo} :
              /\ ShouldSearch(m) <=> (searchService = "ready" /\ Matches(ToLower(m)))
              /\ searchService # "ready" => ~ShouldSearch(m)
        /\ resp.searched => ShouldSearch(TrimSpace(turn.message))
        /\ resp.searched => ProviderChatGPT \in resp.called

C24_Witness ==
    /\ Turned
    /\ resp.searched
    /\ turn.message = HowTo
    /\ turn.results > 0

Min(a, b) == IF a < b THEN a ELSE b

\* the contents of a list of entries, in order
Contents(entries) == [i \in 1..Len(entries) |-> entries[i].content]

\* the entries of the history given to the request-building call
Given == RoledHistory(call.historyLength)

\* the last n entries given
Trailing(n) ==
    SubSeq(Given, Len(Given) - Min(n, Len(Given)) + 1, Len(Given))

\* C25: each adapter puts a bounded suffix of the history into its request, in
\* the original order: the hosted message list is one system message, the last
\* min(6, len(history)) entries each tagged user or assistant, and the current
\* message last; the local prompt uses only the last min(4, len(history))
\* entries (those of the user and of the assistant), then the current message
\* as the final "Human:" line and the "Assistant:" cue.
C25_HistoryWindows ==
    /\ call.op = "buildMessages" =>
          LET messages == returned[1]
              window == Trailing(HostedWindow)
          IN /\ Len(messages) = Len(window) + 2
             /\ messages[1].role = "system"
             /\ Contents(SubSeq(messages, 2, Len(messages) - 1)) = Contents(window)
             /\ \A i \in 1..Len(window) :
                   /\ messages[i + 1].role \in {"user", "assistant"}
                   /\ messages[i + 1].role = "assistant" <=> window[i].role = "assistant"
             /\ messages[Len(messages)] = [role |-> "user", content |-> call.text]
    /\ call.op = "buildPrompt" =>
          LET lines == returned[1]
              said(l) == l.tag \in {"Human: ", "Assistant: "}
              spoken(e) == e.role \in {"user", "assistant"}
              turns == SelectSeq(SubSeq(lines, 1, Len(lines) - 2), said)
              window == SelectSeq(Trailing(LocalWindow), spoken)
          IN /\ Len(lines) >= 3
             /\ Contents(turns) = Contents(window)
             /\ \A i \in 1..Len(window) :
                   turns[i].tag = "Human: " <=> window[i].role = "user"
             /\ lines[Len(lines) - 1] = [tag |-> "Human: ", content |-> call.text]
             /\ lines[Len(lines)] = [tag |-> "Assistant: ", content |-> <<>>]

C25_Witness ==
    /\ call.op = "buildMessages"
    /\ call.historyLength > HostedWindow
    /\ Len(returned[1]) = HostedWindow + 2
    /\ returned[1][2].content = call.historyLength - HostedWindow + 1

\* C26: in auto mode, once the selection is Dummy, refreshProviderStatus leaves
\* it there, whatever the backends have become; the selection leaves Dummy only
\* in RefreshProviders.
C26_DummySticksUntilRefreshProviders ==
    /\ (lastOp = "refreshProviderStatus" /\ before.currentProvider = ProviderDummy) =>
          currentProvider = ProviderDummy
    /\ (lastOp # "NewChatbot" /\ before.currentProvider = ProviderDummy
          /\ currentProvider # ProviderDummy) =>
          lastOp = "RefreshProviders"

C26_Witness ==
    /\ lastOp = "refreshProviderStatus"
    /\ ~Forced
    /\ before.currentProvider = ProviderDummy
    /\ llmService /\ localUp
    /\ providerCheckCache[ProviderLocal]
    /\ currentProvider = ProviderDummy

\* whether the adapter of backend p was created
HasAdapter(p) == IF p = ProviderLocal THEN llmService ELSE chatgptService

\* C27: right after construction the availability cache agrees with the
\* selection: the selection is a real backend only if the cache entry of that
\* backend is true, it is Dummy only if no cache entry is true, and in a forced
\* mode the backend that is not preferred has the cache entry false and no
\* adapter.
C27_CacheAgreesAfterConstruction ==
    Constructed =>
        /\ currentProvider \in RealProviders =>
              \A p \in RealProviders : p = currentProvider => providerCheckCache[p]
        /\ currentProvider = ProviderDummy =>
              \A p \in RealProviders : ~providerCheckCache[p]
        /\ Forced =>
              \A p \in RealProviders \ {preferredProvider} :
                 ~providerCheckCache[p] /\ ~HasAdapter(p)

C27_Witness ==
    /\ Constructed
    /\ preferredProvider = ProviderChatGPT
    /\ currentProvider = ProviderChatGPT
    /\ localUp
    /\ ~providerCheckCache[ProviderLocal]
    /\ ~llmService

\* what follows the command prefix in the content of the last Discord message
Remainder == SubSeq(front.content, Len(commandPrefix) + 1, Len(front.content))

\* the last Discord message is a command with something to say, from a person
IsCommand ==
    /\ ~front.bot
    /\ Len(front.content) >= Len(commandPrefix)
    /\ \A i \in 1..Len(commandPrefix) : front.content[i] = commandPrefix[i]
    /\ \E i \in 1..Len(Remainder) : Remainder[i] \notin {" ", "\n", "\t", "\r"}

\* C28: the Discord listener calls ProcessMessage only for a message whose
\* author is not a bot and whose content starts with the command prefix with a
\* remainder that is not blank, and then exactly once; a message of a bot gets
\* no reply.
C28_ListenerCallsOncePerCommand ==
    front.handler = "messageCreate" =>
        /\ front.called => IsCommand
        /\ IsCommand => front.called /\ front.calls = 1 /\ front.sent
        /\ ~front.called => front.calls = 0
        /\ front.bot => ~front.called /\ ~front.sent

C28_Witness ==
    /\ front.handler = "messageCreate"
    /\ front.bot
    /\ front.content = commandPrefix \o <<" ", "H", "i">>
    /\ ~front.called
    /\ ~front.sent

\* what sendMessage adds to the i-th of n chunks
Decoration(i, n) ==
    (IF i > 1 THEN Len(Continued) ELSE 0) + (IF i < n THEN Len(Ellipsis) ELSE 0)

\* C29: every text handed to one send call is at most 2000 characters; a reply
\* longer than that goes out in chunks of at most 1900 characters, and what is
\* put before and after a chunk keeps it within the 2000.
C29_SendsWithinLimit ==
    call.op = "sendMessage" =>
        /\ \A i \in 1..Len(returned) : Len(returned[i]) <= DiscordLimit
        /\ Len(call.text) <= DiscordLimit => returned = <<call.text>>
        /\ Len(call.text) > DiscordLimit =>
              /\ Len(returned) >= 2
              /\ \A i \in 1..Len(returned) :
                    /\ Len(returned[i]) - Decoration(i, Len(returned)) <= ChunkLength
                    /\ Len(returned[i]) - Decoration(i, Len(returned)) > 0
                    /\ i > 1 => HasPrefix(returned[i], Continued)
                    /\ i < Len(returned) =>
                          SubSeq(returned[i], Len(returned[i]) - Len(Ellipsis) + 1,
                                 Len(returned[i])) = Ellipsis

C29_Witness ==
    /\ call.op = "sendMessage"
    /\ Len(call.text) > DiscordLimit
    /\ Len(returned) >= 3
    /\ Len(returned[2]) = ChunkLength + Len(Continued) + Len(Ellipsis)

\* the locations whose file exists and can be read, in the order of preference
Present == {i \in 1..Len(locations) : call.files[i] = "present"}

\* C30: LoadEnvWithFallback tries .env, .env.local and config/.env in this
\* order: when an earlier location does not exist, a later location that does
\* exist is loaded.
C30_LaterLocationLoaded ==
    call.op = "LoadEnvWithFallback" =>
        \A i \in Present :
            (\A j \in 1..(i - 1) : call.files[j] = "missing") =>
                returned = <<locations[i]>>

====
